---- MODULE Spec2Model ----
(***************************************************************************)
(* Model of twitter_bot_py.py: one invocation of main() picks a tweet that *)
(* is not yet in the used list of tweets.json, publishes it and records it *)
(* in the file.  The state is the backing file, the account's published    *)
(* posts, and for every invocation its environment, its locals and its     *)
(* position in main().                                                     *)
(***************************************************************************)
EXTENDS Integers, Sequences, FiniteSets, TLC

\* ------------------------------------------------------------------ bounds
MaxPool == 3        \* longest tweets list of an initial backing file
MaxUsed == 3        \* longest used_tweets list of an initial backing file
MaxPublished == 3   \* runs are started until this many posts were published
MaxRacePool == 2    \* longest tweets list when two invocations race

\* ------------------------------------------------------------ small helpers
Range(s) == {s[i] : i \in 1..Len(s)}

RECURSIVE Filter(_, _)
\* [t for t in s if t not in excluded]
Filter(s, excluded) ==
    IF s = <<>> THEN <<>>
    ELSE IF Head(s) \in excluded THEN Filter(Tail(s), excluded)
         ELSE <<Head(s)>> \o Filter(Tail(s), excluded)

SeqsUpTo(S, n) == UNION {[1..k -> S] : k \in 0..n}

Distinct(s) == \A i, j \in 1..Len(s) : i # j => s[i] # s[j]

\* ------------------------------------------------------------- environment
required_vars ==
    <<"TWITTER_API_KEY", "TWITTER_API_SECRET", "TWITTER_ACCESS_TOKEN",
      "TWITTER_ACCESS_TOKEN_SECRET", "TWITTER_BEARER_TOKEN">>

\* An environment gives os.getenv(var) for each variable: "None" when it is not
\* set, else its value, which may be the empty string.
AllSet == [v \in Range(required_vars) |-> "secret"]

\* The environments a run is started in: everything set, exactly one variable
\* not set, one variable set to the empty string, nothing set.
Environments ==
    {AllSet, [v \in Range(required_vars) |-> "None"],
     [AllSet EXCEPT !["TWITTER_ACCESS_TOKEN"] = ""]}
    \cup {[AllSet EXCEPT ![v] = "None"] : v \in Range(required_vars)}

\* Mutant: only the first variable is checked.
MissingFirstOnly(e) ==
    IF e[required_vars[1]] \in {"None", ""} THEN <<required_vars[1]>> ELSE <<>>

\* missing_vars = [var for var in required_vars if not os.getenv(var)]: None
\* and the empty string are both falsy (line 109).
missing_vars(e) == Filter(required_vars, {v \in Range(required_vars) : e[v] \notin {"None", ""}})

\* ------------------------------------------------------------ backing file
\* tweets.json is missing, is not valid JSON, or holds a JSON object; `keys`
\* are the fields the object has.
NoFile == [kind |-> "missing", keys |-> {}, tweets |-> <<>>, used_tweets |-> <<>>]
BadFile == [kind |-> "invalid", keys |-> {}, tweets |-> <<>>, used_tweets |-> <<>>]
Json(keys, t, u) == [kind |-> "json", keys |-> keys, tweets |-> t, used_tweets |-> u]

\* data.get(field, [])
Get(f, field) ==
    IF f.kind = "json" /\ field \in f.keys
    THEN (IF field = "tweets" THEN f.tweets ELSE f.used_tweets)
    ELSE <<>>

\* The eight sample tweets (their leading emoji left out).
SampleTweets ==
    <<"Starting the day with gratitude! What are you thankful for today?",
      "Remember: Progress, not perfection. Every small step counts!",
      "Innovation happens when we dare to think differently.",
      "Growth mindset: Challenges are opportunities in disguise.",
      "Good morning! May your coffee be strong and your Monday be short.",
      "Focus on what you can control, let go of what you can't.",
      "Learning something new every day keeps the mind sharp!",
      "After every storm comes a rainbow. Keep pushing forward!">>

\* sample_data of create_sample_tweets_file
sample_data == Json({"tweets", "used_tweets"}, SampleTweets, <<>>)

\* ---------------------------------------------------- initial backing files
AllMsgs == <<"A", "B", "C", "D", "E">>
Pool(n) == SubSeq(AllMsgs, 1, n)
\* A hand-edited pool that lists one tweet twice.
DupPool == <<"A", "B", "A">>
\* A hand-edited used entry that is in no pool.
Foreign == "X"

Pools == {Pool(n) : n \in 0..MaxPool} \cup {DupPool}
\* Used lists as the program writes them (no tweet twice), with or without
\* the foreign entry, and one hand-edited list that repeats a tweet.
UsedLists ==
    {u \in SeqsUpTo(Range(Pool(MaxPool)) \cup {Foreign}, MaxUsed) : Distinct(u)}
    \cup {<<"A", "A">>}

BothKeys == {"tweets", "used_tweets"}

InitFiles ==
    {NoFile, BadFile, Json({}, <<>>, <<>>)}
    \cup {Json(BothKeys, t, u) : t \in Pools, u \in UsedLists}
    \cup {Json({"tweets"}, t, <<>>) : t \in Pools}
    \cup {Json({"used_tweets"}, <<>>, u) : u \in UsedLists}

\* A pool of distinct tweets (possibly none), none used yet.
FreshFiles == {Json(BothKeys, Pool(n), <<>>) : n \in 0..MaxPool}

RaceFiles == {Json(BothKeys, Pool(n), <<>>) : n \in 0..MaxRacePool}

\* Files whose used tweets are all tweets of the pool.
SubsetFiles == {f \in InitFiles : f.kind = "json" /\ Range(f.used_tweets) \subseteq Range(f.tweets)}

\* -------------------------------------------------------------------- state
Runs == {1, 2}       \* invocations that can be alive at the same time

VARIABLES
    file,            \* tweets.json
    published,       \* the account's posts, in the order create_tweet made them
    pc,              \* pc[p]: where invocation p is in main()
    env,             \* env[p]: os.getenv of the invocation's process
    before,          \* before[p]: tweets.json when the invocation started
    ops,             \* ops[p]: the file and network operations the invocation has made
    tweets, used_tweets, selected_tweet,   \* locals of main()
    data,            \* local of save_used_tweets
    result           \* result[p]: how the invocation ended

vars == <<file, published, pc, env, before, ops, tweets, used_tweets,
          selected_tweet, data, result>>

Running(p) == pc[p] \notin {"idle", "done"}

InitLocals ==
    /\ published = <<>>
    /\ pc = [p \in Runs |-> "idle"]
    /\ env = [p \in Runs |-> AllSet]
    /\ before = [p \in Runs |-> file]
    /\ ops = [p \in Runs |-> {}]
    /\ tweets = [p \in Runs |-> <<>>]
    /\ used_tweets = [p \in Runs |-> <<>>]
    /\ selected_tweet = [p \in Runs |-> "None"]
    /\ data = [p \in Runs |-> NoFile]
    /\ result = [p \in Runs |-> ""]

Init == file \in InitFiles /\ InitLocals
InitFresh == file \in FreshFiles /\ InitLocals
InitSubset == file \in SubsetFiles /\ InitLocals
InitRace == file \in RaceFiles /\ InitLocals

\* ------------------------------------------------------------------ main()
\* The process starts and main() checks the environment (lines 101-115).
Main(p) ==
    /\ pc[p] \in {"idle", "done"}
    /\ Len(published) + Cardinality({q \in Runs : Running(q)}) < MaxPublished
    /\ \E e \in Environments :
        /\ env' = [env EXCEPT ![p] = e]
        /\ IF missing_vars(e) # <<>>
           THEN pc' = [pc EXCEPT ![p] = "done"] /\ result' = [result EXCEPT ![p] = "missing_env"]
           ELSE pc' = [pc EXCEPT ![p] = "load"] /\ result' = [result EXCEPT ![p] = ""]
    /\ before' = [before EXCEPT ![p] = file]
    /\ ops' = [ops EXCEPT ![p] = {}]
    /\ tweets' = [tweets EXCEPT ![p] = <<>>]
    /\ used_tweets' = [used_tweets EXCEPT ![p] = <<>>]
    /\ selected_tweet' = [selected_tweet EXCEPT ![p] = "None"]
    /\ data' = [data EXCEPT ![p] = NoFile]
    /\ UNCHANGED <<file, published>>

\* ------------------------------------------------------------- load_tweets
\* The file load_tweets leaves: create_sample_tweets_file writes sample_data when
\* open() raised FileNotFoundError.
FileAfterLoad(f) == IF f.kind = "missing" THEN sample_data ELSE f

\* Mutant: the sample file is read back after it was created.
LoadedTweetsReadBack(f) == Get(FileAfterLoad(f), "tweets")

\* What load_tweets returns: the two fields of a JSON object, each [] when the
\* object lacks it; two empty lists when the file is missing (the sample file it
\* then creates is not read back) or is not valid JSON.
LoadedTweets(f) == IF f.kind = "json" THEN Get(f, "tweets") ELSE <<>>
LoadedUsed(f) == IF f.kind = "json" THEN Get(f, "used_tweets") ELSE <<>>

\* tweets, used_tweets = load_tweets()   (line 118)
LoadTweets(p) ==
    /\ pc[p] = "load"
    /\ tweets' = [tweets EXCEPT ![p] = LoadedTweets(file)]
    /\ used_tweets' = [used_tweets EXCEPT ![p] = LoadedUsed(file)]
    /\ file' = FileAfterLoad(file)
    /\ ops' = [ops EXCEPT ![p] = @ \cup {"load_tweets"}
                                   \cup (IF file.kind = "missing" THEN {"create_sample_tweets_file"} ELSE {})]
    /\ pc' = [pc EXCEPT ![p] = "select"]
    /\ UNCHANGED <<published, env, before, selected_tweet, data, result>>

\* ---------------------------------------------------------------- selection
\* Mutant: the used tweets are not filtered out.
AvailableNoFilter(tw, used) == tw

\* available_tweets = [t for t in tweets if t not in used_tweets]   (line 125)
Available(tw, used) == Filter(tw, Range(used))

\* Mutant: the used list is emptied on every run.
UsedAlwaysReset(available, used) == <<>>

\* Mutant: the candidates are reset, the used list is not.
UsedNeverReset(available, used) == used

\* if not available_tweets: used_tweets = []   (lines 128-130)
UsedAfterReset(available, used) == IF available = <<>> THEN <<>> ELSE used

\* if not available_tweets: available_tweets = tweets   (lines 128-131)
Candidates(available, tw) == IF available = <<>> THEN tw ELSE available

\* Lines 120-134: stop on an empty pool, else filter, reset when nothing is
\* left, and draw one candidate (random.choice: any of them).
NoTweets(p) ==
    /\ pc[p] = "select"
    /\ tweets[p] = <<>>
    /\ pc' = [pc EXCEPT ![p] = "done"]
    /\ result' = [result EXCEPT ![p] = "no_tweets"]
    /\ UNCHANGED <<file, published, env, before, ops, tweets, used_tweets,
                   selected_tweet, data>>

\* Mutant: the reset of the used list is written to the file at once.
SelectPersistsReset(p) ==
    /\ pc[p] = "select"
    /\ tweets[p] # <<>>
    /\ LET available_tweets == Available(tweets[p], used_tweets[p]) IN
         /\ used_tweets' = [used_tweets EXCEPT ![p] = UsedAfterReset(available_tweets, @)]
         /\ \E t \in Range(Candidates(available_tweets, tweets[p])) :
               selected_tweet' = [selected_tweet EXCEPT ![p] = t]
         /\ file' = IF available_tweets = <<>> THEN [file EXCEPT !.used_tweets = <<>>] ELSE file
    /\ pc' = [pc EXCEPT ![p] = "auth"]
    /\ UNCHANGED <<published, env, before, ops, tweets, data, result>>

Select(p) ==
    /\ pc[p] = "select"
    /\ tweets[p] # <<>>
    /\ LET available_tweets == Available(tweets[p], used_tweets[p]) IN
         /\ used_tweets' = [used_tweets EXCEPT ![p] = UsedAfterReset(available_tweets, @)]
         /\ \E t \in Range(Candidates(available_tweets, tweets[p])) :
               selected_tweet' = [selected_tweet EXCEPT ![p] = t]
    /\ pc' = [pc EXCEPT ![p] = "auth"]
    /\ UNCHANGED <<file, published, env, before, ops, tweets, data, result>>

\* ------------------------------------------------------------------ network
\* client = authenticate_twitter(): get_me() answers or raises (lines 137-139).
AuthOk(p) ==
    /\ pc[p] = "auth"
    /\ ops' = [ops EXCEPT ![p] = @ \cup {"get_me"}]
    /\ pc' = [pc EXCEPT ![p] = "post"]
    /\ UNCHANGED <<file, published, env, before, tweets, used_tweets,
                   selected_tweet, data, result>>

AuthFails(p) ==
    /\ pc[p] = "auth"
    /\ ops' = [ops EXCEPT ![p] = @ \cup {"get_me"}]
    /\ pc' = [pc EXCEPT ![p] = "done"]
    /\ result' = [result EXCEPT ![p] = "auth_failed"]
    /\ UNCHANGED <<file, published, env, before, tweets, used_tweets,
                   selected_tweet, data>>

\* post_tweet(client, selected_tweet) returns True, and main appends the tweet
\* to its used list (lines 142-144).
PostOk(p) ==
    /\ pc[p] = "post"
    /\ ops' = [ops EXCEPT ![p] = @ \cup {"create_tweet"}]
    /\ published' = Append(published, selected_tweet[p])
    /\ used_tweets' = [used_tweets EXCEPT ![p] = Append(@, selected_tweet[p])]
    /\ pc' = [pc EXCEPT ![p] = "save_read"]
    /\ UNCHANGED <<file, env, before, tweets, selected_tweet, data, result>>

\* create_tweet raises: post_tweet returns False (lines 97-99, 147-148).
PostFails(p) ==
    /\ pc[p] = "post"
    /\ ops' = [ops EXCEPT ![p] = @ \cup {"create_tweet"}]
    /\ pc' = [pc EXCEPT ![p] = "done"]
    /\ result' = [result EXCEPT ![p] = "post_failed"]
    /\ UNCHANGED <<file, published, env, before, tweets, used_tweets,
                   selected_tweet, data>>

\* -------------------------------------------------------- save_used_tweets
\* Mutant: the file's object is dropped, as if reading it always raised.
SaveBaseEmpty(f) == Json(BothKeys, <<>>, <<>>)

\* The object save_used_tweets starts from: the file's, or an empty one when
\* reading it raised (lines 36-40).
SaveBase(f) == IF f.kind = "json" THEN f ELSE Json(BothKeys, <<>>, <<>>)

\* Mutant: the given list is merged into the list the file holds now.
SavedDataMerged(f, used) ==
    [SaveBase(f) EXCEPT !.keys = @ \cup {"used_tweets"},
                        !.used_tweets = Get(f, "used_tweets")
                                        \o Filter(used, Range(Get(f, "used_tweets")))]

\* data['used_tweets'] = used_tweets   (line 42)
SavedData(f, used) ==
    [SaveBase(f) EXCEPT !.keys = @ \cup {"used_tweets"}, !.used_tweets = used]

\* Lines 36-42: read the file again and set the field.
SaveRead(p) ==
    /\ pc[p] = "save_read"
    /\ data' = [data EXCEPT ![p] = SavedData(file, used_tweets[p])]
    /\ ops' = [ops EXCEPT ![p] = @ \cup {"save_used_tweets"}]
    /\ pc' = [pc EXCEPT ![p] = "save_write"]
    /\ UNCHANGED <<file, published, env, before, tweets, used_tweets,
                   selected_tweet, result>>

\* Lines 44-45 and 146: write the whole object back and return.
SaveWrite(p) ==
    /\ pc[p] = "save_write"
    /\ file' = data[p]
    /\ data' = [data EXCEPT ![p] = NoFile]
    /\ pc' = [pc EXCEPT ![p] = "done"]
    /\ result' = [result EXCEPT ![p] = "posted"]
    /\ UNCHANGED <<published, env, before, ops, tweets, used_tweets,
                   selected_tweet>>

\* ----------------------------------------------------------- specifications
Step(p) ==
    \/ Main(p)
    \/ LoadTweets(p)
    \/ NoTweets(p)
    \/ Select(p)
    \/ AuthOk(p)
    \/ AuthFails(p)
    \/ PostOk(p)
    \/ PostFails(p)
    \/ SaveRead(p)
    \/ SaveWrite(p)

\* Invocations one after the other, as the external scheduler starts them.
Sequential == {1}

Next == \E p \in Sequential : Step(p)
Spec == Init /\ [][Next]_vars

\* The same, from a file with a pool of distinct tweets and nothing used.
SpecFresh == InitFresh /\ [][Next]_vars

\* The same, from a file whose used tweets are all in its pool.
SpecSubset == InitSubset /\ [][Next]_vars

\* Two invocations at a time against the same file.
NextRace == \E p \in Runs : Step(p)
SpecRace == InitRace /\ [][NextRace]_vars

\* ------------------------------------------------------------------ claims
Last(s) == s[Len(s)]

\* The invocation has drawn its tweet (line 134 was passed).
Selected(p) == selected_tweet[p] # "None"

\* post_tweet returned True in this invocation.
Posted(p) == "create_tweet" \in ops[p] /\ pc[p] \in {"save_read", "save_write", "done"}
             /\ result[p] # "post_failed"

\* The invocation ended on a failed authentication or a failed publish.
Failed(p) == pc[p] = "done" /\ result[p] \in {"auth_failed", "post_failed"}

PoolBefore(p) == Get(before[p], "tweets")
UsedBefore(p) == Get(before[p], "used_tweets")
Exhausted(p) == Range(PoolBefore(p)) \subseteq Range(UsedBefore(p))

\* C1: from a pool of N distinct tweets and an empty used list, the first N
\* posts published by sequential runs (failed runs in between allowed) are N
\* distinct tweets: nothing is published twice before everything was published.
C1_NoRepeatBeforeExhaustion ==
    \A i, j \in 1..Len(published) :
        (i < j /\ j <= Len(file.tweets)) => published[i] # published[j]

\* C1 witness: a pool of at least two tweets was published once over, and the
\* next post repeats the first.
C1_Witness ==
    /\ Len(file.tweets) >= 2
    /\ Len(published) = Len(file.tweets) + 1
    /\ Last(published) = published[1]

\* C2 as stated: after every run that published, the file's used_tweets is the
\* list the file held before the run plus the published tweet.
C2_AppendsOne ==
    \A p \in Sequential :
        (pc[p] = "done" /\ result[p] = "posted" /\ PoolBefore(p) # <<>>)
        => /\ file.used_tweets = Append(UsedBefore(p), selected_tweet[p])
           /\ Last(published) = selected_tweet[p]

\* C2 amended: the same for the runs whose file held at least one pool tweet that
\* was not in its used list (the runs that do not reset).
C2_AppendsOneUnlessReset ==
    \A p \in Sequential :
        (pc[p] = "done" /\ result[p] = "posted" /\ PoolBefore(p) # <<>> /\ ~Exhausted(p))
        => /\ file.kind = "json" /\ "used_tweets" \in file.keys
           /\ file.used_tweets = Append(UsedBefore(p), selected_tweet[p])
           /\ Last(published) = selected_tweet[p]

\* C2 witness: a run published with a non-empty used list that it did not reset.
C2_Witness ==
    /\ pc[1] = "done" /\ result[1] = "posted"
    /\ UsedBefore(1) # <<>> /\ ~Exhausted(1)
    /\ Len(file.used_tweets) = Len(UsedBefore(1)) + 1

\* C3: a run that ends on a failed authentication or a failed publish has not
\* called save_used_tweets, and the file's used_tweets field is what it was
\* before the run, also when the run had reset its in-memory used list.
C3_FailureLeavesFile ==
    \A p \in Sequential :
        Failed(p)
        => /\ "save_used_tweets" \notin ops[p]
           /\ file.kind = before[p].kind
           /\ ("used_tweets" \in file.keys) = ("used_tweets" \in before[p].keys)
           /\ file.used_tweets = before[p].used_tweets

\* C3 witness: the publish failed after the selector had emptied a non-empty
\* used list in memory.
C3_Witness ==
    /\ pc[1] = "done" /\ result[1] = "post_failed"
    /\ UsedBefore(1) # <<>>
    /\ used_tweets[1] = <<>>

\* C4: when the loaded pool has a tweet that is not in the loaded used list, the
\* selected tweet is a pool tweet that is not in the used list, and it is the
\* tweet the run publishes.
C4_SelectsUnused ==
    \A p \in Sequential :
        (Selected(p) /\ ~Exhausted(p))
        => /\ selected_tweet[p] \in Range(PoolBefore(p)) \ Range(UsedBefore(p))
           /\ Posted(p) => Last(published) = selected_tweet[p]

\* C4 witness: a tweet was selected from a pool of which a part, not all, is used.
C4_Witness ==
    /\ pc[1] = "auth" /\ Selected(1)
    /\ Range(UsedBefore(1)) \cap Range(PoolBefore(1)) # {}
    /\ ~Exhausted(1)

\* C5: when the loaded used list holds every tweet of a non-empty pool, the run
\* empties its used list before it selects, selects a pool tweet, and after a
\* successful publish the file's used_tweets is exactly the published tweet.
C5_ResetOnExhaustion ==
    \A p \in Sequential :
        (Selected(p) /\ Exhausted(p))
        => /\ selected_tweet[p] \in Range(PoolBefore(p))
           /\ pc[p] \in {"auth", "post"} => used_tweets[p] = <<>>
           /\ Failed(p) => used_tweets[p] = <<>>
           /\ Posted(p) => used_tweets[p] = <<selected_tweet[p]>>
           /\ (pc[p] = "done" /\ result[p] = "posted")
                 => file.used_tweets = <<selected_tweet[p]>>

\* C5 witness: a run published from a pool of two or more tweets that were all used.
C5_Witness ==
    /\ pc[1] = "done" /\ result[1] = "posted"
    /\ Len(PoolBefore(1)) >= 2 /\ Exhausted(1)
    /\ file.used_tweets = <<selected_tweet[1]>>

\* C6: a run started with one of the five variables missing stops at once: it
\* makes no file operation and no network call, and the file is untouched.
C6_MissingEnvStops ==
    \A p \in Sequential :
        (pc[p] # "idle" /\ \E v \in Range(required_vars) : env[p][v] = "None")
        => /\ pc[p] = "done" /\ result[p] = "missing_env"
           /\ ops[p] = {}
           /\ file = before[p]

\* C6 witness: only TWITTER_BEARER_TOKEN is missing, and the file that did not
\* exist was not created.
C6_Witness ==
    /\ pc[1] = "done"
    /\ env[1] = [AllSet EXCEPT !["TWITTER_BEARER_TOKEN"] = "None"]
    /\ file = NoFile

\* C7: from a file whose used tweets are all pool tweets, every used tweet of
\* the file is a pool tweet after any sequence of runs.
C7_UsedWithinPool ==
    /\ file.kind = "json"
    /\ Range(file.used_tweets) \subseteq Range(file.tweets)

\* C7 witness: two runs have published and a third failed to.
C7_Witness ==
    /\ Len(published) >= 2
    /\ Len(file.used_tweets) >= 2
    /\ pc[1] = "done" /\ result[1] = "post_failed"

\* C8: load_tweets on a missing file creates the file with the eight sample
\* tweets and an empty used list and returns two empty lists, so the run stops at
\* the empty-pool check and publishes nothing.
C8_BootstrapStops ==
    \A p \in Sequential :
        (before[p].kind = "missing" /\ "load_tweets" \in ops[p])
        => /\ file.kind = "json" /\ file.keys = BothKeys
           /\ file.tweets = SampleTweets /\ Len(file.tweets) = 8
           /\ file.used_tweets = <<>>
           /\ tweets[p] = <<>> /\ used_tweets[p] = <<>>
           /\ pc[p] \in {"select", "done"}
           /\ pc[p] = "done" => result[p] = "no_tweets"
           /\ ops[p] = {"load_tweets", "create_sample_tweets_file"}
           /\ published = <<>>

\* C8 witness: the run that found no file has ended.
C8_Witness ==
    /\ pc[1] = "done" /\ before[1] = NoFile
    /\ "create_sample_tweets_file" \in ops[1]
    /\ file = sample_data

\* C9: a run against an existing valid file leaves the file's tweets field as
\* it was, however the run ends.
C9_TweetsFieldKept ==
    \A p \in Sequential :
        (pc[p] = "done" /\ before[p].kind = "json")
        => /\ file.kind = "json"
           /\ ("tweets" \in file.keys) = ("tweets" \in before[p].keys)
           /\ file.tweets = before[p].tweets

\* C9 witness: a run has rewritten a file that holds two or more tweets.
C9_Witness ==
    /\ pc[1] = "done" /\ result[1] = "posted"
    /\ "save_used_tweets" \in ops[1]
    /\ Len(file.tweets) >= 2 /\ file # before[1]

\* C10: with two invocations at a time, the file a run leaves is the list that
\* run built from what it had loaded, never a merge with the other run's: once
\* both have published and ended, the file's used_tweets is the in-memory used
\* list of one of them (the later writer).
C10_LastWriterWins ==
    (\A p \in Runs : pc[p] = "done" /\ result[p] = "posted")
    => \E p \in Runs : file.used_tweets = used_tweets[p]

\* C10 witness: from a fresh pool of two or more tweets, the first two posts are
\* the same tweet (two runs loaded the empty used list and drew the same tweet),
\* and of two runs that both published, the file records only the tweet of the
\* one that wrote last: the other's published tweet is not in used_tweets.
C10_Witness ==
    /\ Len(file.tweets) >= 2
    /\ Len(published) >= 2 /\ published[1] = published[2]
    /\ \A p \in Runs : pc[p] = "done" /\ result[p] = "posted"
    /\ \E p, q \in Runs :
          /\ p # q
          /\ file.used_tweets = <<selected_tweet[q]>>
          /\ selected_tweet[p] # selected_tweet[q]

\* The two races of C10 taken one at a time.  Both runs loaded the same used
\* list, drew the same tweet and published it:
C10_SameTweetTwice ==
    \A p \in Runs :
        /\ pc[p] \in {"save_read", "save_write"}
        /\ selected_tweet[p] = selected_tweet[1]
        /\ used_tweets[p] = <<selected_tweet[1]>>

\* Two runs published different tweets from the same loaded list, and the file
\* holds only the tweet of the run that wrote last:
C10_LostUpdate ==
    /\ Len(published) = 2 /\ published[1] # published[2]
    /\ \A p \in Runs : pc[p] = "done" /\ result[p] = "posted"
    /\ \E q \in Runs : file.used_tweets = <<selected_tweet[q]>>

====
